---- MODULE Spec2Model ----
(***************************************************************************)
(* Model of the clickers of common/clicker.js (src/unnamed/part_001):      *)
(* BaseClicker, IntervalClicker and ScheduledClicker, together with the    *)
(* two collaborators they are driven by: the audio clock                   *)
(* (context.currentTime) and the host's callbacks (requestAnimationFrame   *)
(* ticks and the "ended" events of the oscillator nodes).                  *)
(*                                                                         *)
(* Time is counted in units of 5 ms (200 units per second), so that        *)
(* _clickDuration = 0.015 s is 3 units and the test                        *)
(* interval.time < MIN_INTERVAL = 1/60 s is 60 * t < 200.                  *)
(*                                                                         *)
(* One clicker is modelled; its class (kind) and its options are chosen at *)
(* construction.  A public method is one action: it runs to its return or  *)
(* to the statement that throws, and what it had assigned before the throw *)
(* stays assigned.  `result` holds the outcome of the latest public call.  *)
(***************************************************************************)
EXTENDS Integers, Sequences, FiniteSets, TLC

VARIABLES
    kind,                 \* "interval" | "scheduled": the class constructed
    state,                \* BaseClicker._state
    context,              \* BaseClicker._context: "ctx" | "null"
    destinations,         \* BaseClicker._destinations (a list)
    options,              \* IntervalClicker._options.clicks (the pattern)
    result,               \* outcome of the latest public call: "ok", "error" (thrown by the clicker), or the exception an AudioNode method threw
    clock,                \* context.currentTime
    currentSource,        \* IntervalClicker._currentSource
    futureSource,         \* IntervalClicker._futureSource
    interval,             \* IntervalClicker._interval
    next,                 \* IntervalClicker._next
    timeFirstClick,       \* IntervalClicker._timeFirstClick
    beatCountScheduling,  \* IntervalClicker._beatCountScheduling
    beatCountCurrent,     \* IntervalClicker._beatCountCurrent
    chains,               \* number of registered requestAnimationFrame(counter) callbacks
    framed,               \* an animation frame has run at this clock time
    detached,             \* nodes no field refers to any more, "ended" not yet dispatched
    sources,              \* ScheduledClicker._sources (a FIFO list)
    clickTimes,           \* ScheduledClicker._clickTimes (<<>> is null)
    timeAtStart,          \* ScheduledClicker._timeAtStart
    nextClickIndex,       \* ScheduledClicker._nextClickIndex
    args,                 \* the arguments of the ScheduledClicker.start call under study
    beats,                \* file mode: state.analysis.beats
    tempoPower,           \* file mode: state.tempoPower
    clickers,             \* mode controllers: the state of every clicker constructed so far
    clicker,              \* mode controllers: the clicker referred to (manual mode: clicker,
                          \* file mode: playback.clicker), an index of clickers, 0 is null
    playing,              \* mode controllers: state.playing
    isSetup,              \* mode controllers: isSetup()
    bpm,                  \* manual mode: state.bpm
    contextTimeAtStart,   \* file mode: state.contextTimeAtStart
    songTimeAtStart,      \* file mode: state.songTimeAtStart
    songTimeLast,         \* file mode: state.songTimeLast
    playbackContext,      \* file mode: playback.context, the number of the context, 0 is null
    contextCount,         \* file mode: the playback contexts constructed so far
    startedContext,       \* file mode: the context state.contextTimeAtStart was read from
    loading,              \* file mode: where the "load-file" handler is suspended
    resumeAfter,          \* file mode: the song time the latest clicker.start was given
    message               \* the pair named by the latest "clicks are not consecutive" error (<<>>: none yet)

baseVars == <<state, context, destinations>>
intervalVars == <<currentSource, futureSource, interval, next, timeFirstClick,
                  beatCountScheduling, beatCountCurrent>>
scheduledVars == <<sources, clickTimes, timeAtStart, nextClickIndex>>
clickerVars == <<baseVars, intervalVars, scheduledVars>>
fileVars == <<contextTimeAtStart, songTimeAtStart, songTimeLast, playbackContext,
              contextCount, startedContext, loading, resumeAfter>>
controllerVars == <<clickers, clicker, playing, isSetup, bpm, fileVars>>
fixedVars == <<kind, options, args, beats, tempoPower, controllerVars>>
vars == <<fixedVars, message, result, clock, chains, framed, detached, clickerVars>>

----------------------------------------------------------------------------
(* Bounds of the exploration *)

MaxTime == 8          \* the clock runs from 0 to MaxTime
MaxChains == 2        \* start() is not explored with more callback chains registered
MaxDetached == 2      \* no node is detached while that many detached nodes are undelivered

----------------------------------------------------------------------------
(* Values *)

Null == -1                       \* null in a numeric field
Destinations == {"d1", "d2"}     \* the AudioNodes a caller may pass
Num(v) == [num |-> TRUE, v |-> v]
NaN == [num |-> FALSE, v |-> 0]  \* NaN, Infinity, undefined, a string: not a finite number
IsFinite(x) == x.num

clickDuration == 3               \* 0.015 s

\* An oscillator node: click index n, start time, the time from which its
\* "ended" event can be dispatched, its onended handler, the destinations it
\* is connected to, and whether "ended" has been dispatched.
NoSource == [n |-> -1, beat |-> 0, frequency |-> 0, start |-> 0, ripe |-> 0,
             onended |-> "none", routes |-> {}, ended |-> FALSE]

Max(a, b) == IF a >= b THEN a ELSE b

\* JavaScript's % (the sign of the result is the sign of the dividend)
JsRem(a, b) == IF a >= 0 THEN a % b ELSE -((-a) % b)

RECURSIVE SeqMax(_)
SeqMax(s) == IF Len(s) = 1 THEN s[1] ELSE Max(s[1], SeqMax(Tail(s)))

Range(s) == {s[i] : i \in 1..Len(s)}

\* The patterns a clicker is constructed with: the default one, and one of
\* cycle length 3 whose beat 2 no entry lists.
Pattern1 == << [frequency |-> 440, beats |-> <<1>>] >>
PatternGap == << [frequency |-> 880, beats |-> <<1>>], [frequency |-> 660, beats |-> <<3>>] >>
Patterns == {Pattern1, PatternGap}

\* Math.max(...clicks.flatMap(click => click.beats))
MaxBeat(clicks) == SeqMax([i \in 1..Len(clicks) |-> SeqMax(clicks[i].beats)])

\* _getBeatNumber
GetBeatNumber == (beatCountScheduling % MaxBeat(options)) + 1

\* _getBeatNumber at the moment _beatCountScheduling is `count`
BeatNumberAt(count) == (count % MaxBeat(options)) + 1

\* clicks.find(click => click.beats.includes(beatNumber)) from entry i on;
\* 0 when no entry is found
RECURSIVE FindClickType(_, _, _)
FindClickType(clicks, beatNumber, i) ==
    IF i > Len(clicks) THEN 0
    ELSE IF beatNumber \in Range(clicks[i].beats) THEN i
    ELSE FindClickType(clicks, beatNumber, i + 1)

\* the click type with the last entry as the default
ClickType_lastDefault(clicks, beatNumber) ==
    LET i == FindClickType(clicks, beatNumber, 1)
    IN  IF i = 0 THEN clicks[Len(clicks)] ELSE clicks[i]

\* _makeSource: find(...) || this._options.clicks[0]
ClickType(clicks, beatNumber) ==
    LET i == FindClickType(clicks, beatNumber, 1)
    IN  IF i = 0 THEN clicks[1] ELSE clicks[i]

\* getCurrentBeat
getCurrentBeat == JsRem(beatCountCurrent, MaxBeat(options)) + 1

\* _throwIfClosed without its test
throwIfClosed_never == FALSE

\* _throwIfClosed: TRUE when it throws
throwIfClosed == state = "closed"

\* _addDestination
addDestination(list, d) == IF d \in Range(list) THEN list ELSE Append(list, d)

\* _removeDestination: indexOf + splice(index, 1)
removeDestination(list, d) ==
    IF d \notin Range(list) THEN list
    ELSE LET i == CHOOSE k \in 1..Len(list) : list[k] = d /\ \A j \in 1..(k-1) : list[j] # d
         IN  SubSeq(list, 1, i - 1) \o SubSeq(list, i + 1, Len(list))

----------------------------------------------------------------------------
(* IntervalClicker *)

\* _makeSource + _scheduleSource: a node connected to every destination,
\* started at `when` and stopped at when + _clickDuration.  A node whose stop
\* time is already past ends in the render quantum that follows the call.
MakeSource(idx, beatNumber, when, handler, dests) ==
    [n |-> idx, beat |-> beatNumber,
     frequency |-> IF beatNumber = 0 THEN options[1].frequency
                   ELSE ClickType(options, beatNumber).frequency,
     start |-> when, ripe |-> Max(when + clickDuration, clock),
     onended |-> handler, routes |-> Range(dests), ended |-> FALSE]

\* the typeof/isFinite/range test on `when`: TRUE when start() throws
WhenInvalid(when) == ~IsFinite(when) \/ when.v < 0

\* the switch on interval.type: seconds per click (60 / bpm is 12000 / bpm units)
IntervalKnown(type) == type \in {"spc", "bpm"}
IntervalTime(type, time) ==
    IF type = "spc" THEN time
    ELSE IF ~IsFinite(time) \/ time.v = 0 THEN NaN
    ELSE Num((60 * 200) \div time.v)

\* the test on interval.time without its comparison with MIN_INTERVAL
IntervalInvalid_noMinimum(t) == ~IsFinite(t)

\* the test against MIN_INTERVAL = 1/60: TRUE when start() throws
IntervalInvalid(t) == ~IsFinite(t) \/ 60 * t.v < 200

\* the arguments connect() and disconnect() are called with: nothing (null or
\* undefined), or a list of nodes; a single node is the one-element list that
\* `destination = [destination]` makes of it
NoDestination == [given |-> FALSE, list |-> <<>>]
Given(l) == [given |-> TRUE, list |-> l]
DestinationLists ==
    {<<>>} \cup {<<d>> : d \in Destinations} \cup {<<d, e>> : d, e \in Destinations}
DestinationArgs == {NoDestination} \cup {Given(l) : l \in DestinationLists}

RECURSIVE AddAll(_, _)
AddAll(list, ds) ==
    IF ds = <<>> THEN list ELSE AddAll(addDestination(list, Head(ds)), Tail(ds))

RECURSIVE RemoveAll(_, _)
RemoveAll(list, ds) ==
    IF ds = <<>> THEN list ELSE RemoveAll(removeDestination(list, Head(ds)), Tail(ds))

\* source.connect(d) for every d of the list, on a slot that may be empty.
\* The connections of a node that has ended carry no sound and are not kept.
ConnectSlot(src, ds) ==
    IF src = NoSource \/ src.ended THEN src ELSE [src EXCEPT !.routes = @ \cup Range(ds)]

\* source.disconnect() on a slot that may be empty
DisconnectSlot(src) ==
    IF src = NoSource THEN src ELSE [src EXCEPT !.routes = {}]

\* What `source.disconnect(destination)` does in IntervalClicker.disconnect,
\* where `destination` is the array and not its element: the argument is no
\* AudioNode, so the call resolves to disconnect(output) with
\* ToNumber(array) = NaN -> 0, which removes every connection of output 0.
DisconnectSlotWithArray(src, ds) ==
    IF src = NoSource \/ ds = <<>> THEN src ELSE [src EXCEPT !.routes = {}]

\* the nodes whose "ended" event is still to be dispatched
SlotSources == {currentSource, futureSource} \ {NoSource}
IntervalPending == {s \in SlotSources : ~s.ended} \cup detached

IC_connect(arg) ==
    /\ kind = "interval"
    /\ IF throwIfClosed \/ ~arg.given
       THEN /\ result' = "error"
            /\ UNCHANGED <<clickerVars, chains, framed, detached>>
       ELSE /\ result' = "ok"
            /\ destinations' = AddAll(destinations, arg.list)
            /\ currentSource' = ConnectSlot(currentSource, arg.list)
            /\ futureSource' = ConnectSlot(futureSource, arg.list)
            /\ UNCHANGED <<state, context, interval, next, timeFirstClick,
                           beatCountScheduling, beatCountCurrent, scheduledVars,
                           chains, framed, detached>>
    /\ UNCHANGED <<fixedVars, message, clock>>

IC_disconnect(arg) ==
    /\ kind = "interval"
    /\ IF throwIfClosed
       THEN /\ result' = "error"
            /\ UNCHANGED <<clickerVars, chains, framed, detached>>
       ELSE /\ result' = "ok"
            /\ IF ~arg.given
               THEN /\ destinations' = <<>>
                    /\ currentSource' = DisconnectSlot(currentSource)
                    /\ futureSource' = DisconnectSlot(futureSource)
               ELSE /\ destinations' = RemoveAll(destinations, arg.list)
                    /\ currentSource' = DisconnectSlotWithArray(currentSource, arg.list)
                    /\ futureSource' = DisconnectSlotWithArray(futureSource, arg.list)
            /\ UNCHANGED <<state, context, interval, next, timeFirstClick,
                           beatCountScheduling, beatCountCurrent, scheduledVars,
                           chains, framed, detached>>
    /\ UNCHANGED <<fixedVars, message, clock>>

\* _disposeSources that leaves a slot as it is
IC_disposeSource_keeps(src) == src

\* _disposeSources on one slot: the node, if any, has its handler replaced and
\* is stopped, and the slot is set to null
IC_disposeSource(src) == IF src = NoSource THEN src ELSE NoSource

\* IntervalClicker.start(when, interval): the three validations throw before
\* anything is assigned
IC_startThrows(when, type, time) ==
    \/ throwIfClosed
    \/ WhenInvalid(when)
    \/ ~IntervalKnown(type)
    \/ IntervalInvalid(IntervalTime(type, time))

IC_start(when, type, time) ==
    /\ kind = "interval"
    /\ chains < MaxChains
    /\ IF IC_startThrows(when, type, time)
       THEN /\ result' = "error"
            /\ UNCHANGED <<clickerVars, chains, framed, detached>>
       ELSE /\ result' = "ok"
            \* _disposeSources: both slots are stopped, their handlers replaced
            /\ timeFirstClick' = clock + when.v
            /\ interval' = IntervalTime(type, time).v
            /\ beatCountScheduling' = 0
            /\ beatCountCurrent' = 0
            /\ next' = clock + when.v
            /\ currentSource' = MakeSource(0, BeatNumberAt(0), clock + when.v, "disconnect",
                                            destinations)
            /\ futureSource' = IC_disposeSource(futureSource)
            /\ chains' = chains + 1
            /\ state' = "active"
            /\ UNCHANGED <<context, destinations, scheduledVars, detached>>
    /\ UNCHANGED <<fixedVars, message, clock, framed>>

\* the next click timed from the tick that schedules it
NextClickTime_fromNow(count) == clock + interval

\* this._timeFirstClick + this._beatCountScheduling * this._interval
NextClickTime(count) == timeFirstClick + count * interval

\* counter that counts a click only when the future slot is empty
CounterRun_countsFirstOnly(r) ==
    IF clock >= r.next
    THEN LET count == IF r.future = NoSource THEN r.count + 1 ELSE r.count
         IN  [count |-> count,
              next |-> NextClickTime(count),
              future |-> MakeSource(count, BeatNumberAt(count), NextClickTime(count),
                                    "counter", destinations),
              current |-> IF r.future # NoSource THEN r.future ELSE r.current,
              detached |-> IF r.future # NoSource /\ ~r.current.ended
                           THEN r.detached \cup {[r.current EXCEPT !.routes = {}]}
                           ELSE r.detached]
    ELSE r

\* One run of the `counter` callback while the state is "active", on the
\* fields it reads and assigns.  The node that leaves the current slot keeps
\* its handler and is referred to by no field any more.
CounterRun(r) ==
    IF clock >= r.next
    THEN [count |-> r.count + 1,
          next |-> NextClickTime(r.count + 1),
          future |-> MakeSource(r.count + 1, BeatNumberAt(r.count + 1),
                                NextClickTime(r.count + 1), "counter",
                                destinations),
          current |-> IF r.future # NoSource THEN r.future ELSE r.current,
          detached |-> IF r.future # NoSource /\ ~r.current.ended
                       THEN r.detached \cup {[r.current EXCEPT !.routes = {}]}
                       ELSE r.detached]
    ELSE r

RECURSIVE CounterRuns(_, _)
CounterRuns(r, k) == IF k = 0 THEN r ELSE CounterRuns(CounterRun(r), k - 1)

\* One animation frame: every registered `counter` callback runs once, one
\* after the other, and registers itself again unless the state is not
\* "active".  A frame is followed by a later one only after the clock has
\* moved.
IC_frame ==
    /\ kind = "interval"
    /\ chains > 0
    /\ ~framed
    /\ framed' = TRUE
    /\ IF state # "active"
       THEN /\ chains' = 0
            /\ UNCHANGED <<clickerVars, detached>>
       ELSE LET r == CounterRuns([count |-> beatCountScheduling, next |-> next,
                                  future |-> futureSource, current |-> currentSource,
                                  detached |-> detached], chains)
            IN  /\ Cardinality(r.detached) <= MaxDetached
                /\ beatCountScheduling' = r.count
                /\ next' = r.next
                /\ futureSource' = r.future
                /\ currentSource' = r.current
                /\ detached' = r.detached
                /\ UNCHANGED <<baseVars, interval, timeFirstClick, beatCountCurrent,
                               scheduledVars, chains>>
    /\ UNCHANGED <<fixedVars, message, result, clock>>

\* pause that leaves the counter of sounded clicks as it is
IC_pause_keepsCurrent ==
    /\ kind = "interval"
    /\ IF throwIfClosed
       THEN /\ result' = "error"
            /\ UNCHANGED clickerVars
       ELSE /\ result' = "ok"
            /\ currentSource' = IC_disposeSource(currentSource)
            /\ futureSource' = IC_disposeSource(futureSource)
            /\ interval' = Null
            /\ next' = Null
            /\ beatCountScheduling' = 0
            /\ state' = "ready"
            /\ UNCHANGED <<context, destinations, timeFirstClick, beatCountCurrent,
                           scheduledVars>>
    /\ UNCHANGED <<fixedVars, message, clock, chains, framed, detached>>

IC_pause ==
    /\ kind = "interval"
    /\ IF throwIfClosed
       THEN /\ result' = "error"
            /\ UNCHANGED clickerVars
       ELSE /\ result' = "ok"
            /\ currentSource' = IC_disposeSource(currentSource)
            /\ futureSource' = IC_disposeSource(futureSource)
            /\ interval' = Null
            /\ next' = Null
            /\ beatCountScheduling' = 0
            /\ beatCountCurrent' = 0
            /\ state' = "ready"
            /\ UNCHANGED <<context, destinations, timeFirstClick, scheduledVars>>
    /\ UNCHANGED <<fixedVars, message, clock, chains, framed, detached>>

\* close that keeps the context
IC_close_keepsContext ==
    /\ kind = "interval"
    /\ result' = "ok"
    /\ IF state = "closed"
       THEN UNCHANGED clickerVars
       ELSE /\ destinations' = <<>>
            /\ currentSource' = IC_disposeSource(DisconnectSlot(currentSource))
            /\ futureSource' = IC_disposeSource(DisconnectSlot(futureSource))
            /\ interval' = 0
            /\ next' = 0
            /\ beatCountScheduling' = 0
            /\ beatCountCurrent' = 0
            /\ state' = "closed"
            /\ UNCHANGED <<context, timeFirstClick, scheduledVars>>
    /\ UNCHANGED <<fixedVars, message, clock, chains, framed, detached>>

IC_close ==
    /\ kind = "interval"
    /\ result' = "ok"
    /\ IF state = "closed"
       THEN UNCHANGED clickerVars
       ELSE /\ destinations' = <<>>
            /\ currentSource' = IC_disposeSource(DisconnectSlot(currentSource))
            /\ futureSource' = IC_disposeSource(DisconnectSlot(futureSource))
            /\ context' = "null"
            /\ interval' = 0
            /\ next' = 0
            /\ beatCountScheduling' = 0
            /\ beatCountCurrent' = 0
            /\ state' = "closed"
            /\ UNCHANGED <<timeFirstClick, scheduledVars>>
    /\ UNCHANGED <<fixedVars, message, clock, chains, framed, detached>>

\* "ended" events are dispatched in the order the nodes stop; nodes that stop
\* in the same render quantum are dispatched in either order.
MayEnd(s, pending) == s.ripe <= clock /\ \A o \in pending : o.ripe >= s.ripe

\* The "ended" event of node s of an IntervalClicker.  The handler set in
\* _makeSource is source.disconnect; the one set in counter reads
\* this._context.currentTime first, which throws once close() has set
\* _context to null.
IC_ended(s) ==
    /\ kind = "interval"
    /\ s \in IntervalPending
    /\ MayEnd(s, IntervalPending)
    /\ beatCountCurrent' =
          IF s.onended = "counter" /\ context # "null"
          THEN beatCountScheduling - 1 ELSE beatCountCurrent
    /\ currentSource' = IF s = currentSource
                        THEN [s EXCEPT !.ended = TRUE, !.routes = {}] ELSE currentSource
    /\ futureSource' = IF s = futureSource
                       THEN [s EXCEPT !.ended = TRUE, !.routes = {}] ELSE futureSource
    /\ detached' = detached \ {s}
    /\ UNCHANGED <<baseVars, interval, next, timeFirstClick, beatCountScheduling,
                   scheduledVars, fixedVars, message, result, clock, chains, framed>>

----------------------------------------------------------------------------
(* ScheduledClicker *)

\* the nodes of _sources whose "ended" event is still to be dispatched
QueuePending == {sources[i] : i \in {k \in 1..Len(sources) : ~sources[k].ended}}
ScheduledPending == QueuePending \cup detached

\* _disposeSources that leaves the nodes in _sources
SC_disposeSources_keeps(srcs) == srcs

\* _disposeSources: every node of _sources has its handler replaced, is
\* disconnected, stopped and shifted out; what is left is the empty list
SC_disposeSources(srcs) == SubSeq(srcs, Len(srcs) + 1, Len(srcs))

\* source.connect(d), for every d of the list, on every node of _sources
ConnectQueue(srcs, ds) ==
    [i \in 1..Len(srcs) |-> [srcs[i] EXCEPT !.routes = @ \cup Range(ds)]]

\* source.disconnect() on every node of _sources
DisconnectQueue(srcs) == [i \in 1..Len(srcs) |-> [srcs[i] EXCEPT !.routes = {}]]

\* The inner loop of disconnect for one destination d: source.disconnect(d)
\* on the nodes of _sources in order.  AudioNode.disconnect(destination)
\* throws InvalidAccessError when the node has no connection to it; the nodes
\* before the one that throws have been disconnected.
RECURSIVE DisconnectEach(_, _, _)
DisconnectEach(srcs, d, i) ==
    IF i > Len(srcs) THEN [thrown |-> FALSE, srcs |-> srcs]
    ELSE IF d \notin srcs[i].routes THEN [thrown |-> TRUE, srcs |-> srcs]
    ELSE DisconnectEach([srcs EXCEPT ![i].routes = @ \ {d}], d, i + 1)

\* The outer loop of disconnect over the list: _removeDestination, then the
\* inner loop; a throw ends the call with what was done so far.
RECURSIVE DisconnectList(_, _, _)
DisconnectList(list, srcs, ds) ==
    IF ds = <<>> THEN [thrown |-> FALSE, list |-> list, srcs |-> srcs]
    ELSE LET removed == removeDestination(list, Head(ds))
             r == DisconnectEach(srcs, Head(ds), 1)
         IN  IF r.thrown THEN [thrown |-> TRUE, list |-> removed, srcs |-> r.srcs]
             ELSE DisconnectList(removed, r.srcs, Tail(ds))

SC_connect(arg) ==
    /\ kind = "scheduled"
    /\ IF throwIfClosed \/ ~arg.given
       THEN /\ result' = "error"
            /\ UNCHANGED clickerVars
       ELSE /\ result' = "ok"
            /\ destinations' = AddAll(destinations, arg.list)
            /\ sources' = ConnectQueue(sources, arg.list)
            /\ UNCHANGED <<state, context, intervalVars, clickTimes, timeAtStart,
                           nextClickIndex>>
    /\ UNCHANGED <<fixedVars, message, clock, chains, framed, detached>>

SC_disconnect(arg) ==
    /\ kind = "scheduled"
    /\ IF throwIfClosed
       THEN /\ result' = "error"
            /\ UNCHANGED clickerVars
       ELSE /\ IF ~arg.given
               THEN /\ result' = "ok"
                    /\ destinations' = <<>>
                    /\ sources' = DisconnectQueue(sources)
               ELSE LET r == DisconnectList(destinations, sources, arg.list)
                    IN  /\ result' = IF r.thrown THEN "InvalidAccessError" ELSE "ok"
                        /\ destinations' = r.list
                        /\ sources' = r.srcs
            /\ UNCHANGED <<state, context, intervalVars, clickTimes, timeAtStart,
                           nextClickIndex>>
    /\ UNCHANGED <<fixedVars, message, clock, chains, framed, detached>>

\* the three argument validations of ScheduledClicker.start: TRUE when it
\* throws before anything is assigned
SC_startRejects(firstClickAfter, clicks, offset) ==
    \/ throwIfClosed
    \/ ~IsFinite(firstClickAfter) \/ firstClickAfter.v < 0
    \/ Len(clicks) = 0
    \/ ~IsFinite(offset)

\* The first loop of start: c (0-based, as in the code) runs up while
\* clicks[c] < firstClickAfter, and each pair passed is compared.
RECURSIVE PrefixScan(_, _, _)
PrefixScan(clicks, after, c) ==
    IF c < Len(clicks) - 1 /\ clicks[c + 1] < after
    THEN IF clicks[c + 1] >= clicks[c + 2]
         THEN [thrown |-> TRUE, c |-> c]
         ELSE PrefixScan(clicks, after, c + 1)
    ELSE [thrown |-> FALSE, c |-> c]

\* The text of the error both loops of start throw,
\* `clicks are not consecutive (left >= right ([c] >= [c+1]))`, as the four
\* values it is built from
NotConsecutive(left, right, c) == <<left, right, c, c + 1>>

\* schedule(clickIndex): the time the node for clicks[clickIndex] is started at
ScheduleTime(clicks, after, offset, clickIndex) ==
    clock + (clicks[clickIndex + 1] - after) + offset

\* source.start(when) throws RangeError when `when` is negative; the node has
\* been made but is not pushed to _sources
ScheduleThrows(clicks, after, offset, clickIndex) ==
    ScheduleTime(clicks, after, offset, clickIndex) < 0

\* schedule(clickIndex): the node for clicks[clickIndex]
ScheduleSource(clicks, after, offset, clickIndex, dests) ==
    MakeSource(clickIndex, 0, ScheduleTime(clicks, after, offset, clickIndex), "schedule",
               dests)

\* The second loop of start, from index k = c + i: compare the pair, then
\* schedule; the last index is scheduled after the loop.  `thrown` is "ok"
\* or what was thrown, `srcs` the queue as the loop leaves it.
RECURSIVE SuffixScan(_, _, _, _, _, _)
SuffixScan(clicks, after, offset, k, dests, acc) ==
    IF k < Len(clicks) - 1 /\ clicks[k + 1] >= clicks[k + 2]
    THEN [thrown |-> "error", srcs |-> acc, at |-> k]
    ELSE IF ScheduleThrows(clicks, after, offset, k)
    THEN [thrown |-> "RangeError", srcs |-> acc]
    ELSE IF k < Len(clicks) - 1
    THEN SuffixScan(clicks, after, offset, k + 1, dests,
                    Append(acc, ScheduleSource(clicks, after, offset, k, dests)))
    ELSE [thrown |-> "ok", srcs |-> Append(acc, ScheduleSource(clicks, after, offset, k, dests))]

\* start of a ScheduledClicker that has just been constructed and connected
\* to one destination: the state it is left in and what the call threw
SC_startOutcome(firstClickAfter, clicks, offset) ==
    IF \/ ~IsFinite(firstClickAfter) \/ firstClickAfter.v < 0
       \/ Len(clicks) = 0
       \/ ~IsFinite(offset)
    THEN [state |-> "ready", thrown |-> "error"]
    ELSE LET after == firstClickAfter.v
             p == PrefixScan(clicks, after, 0)
             q == SuffixScan(clicks, after, offset.v, p.c, <<"d1">>, <<>>)
         IN  IF p.thrown THEN [state |-> "ready", thrown |-> "error"]
             ELSE IF clicks[p.c + 1] < after THEN [state |-> "ready", thrown |-> "ok"]
             ELSE IF q.thrown = "ok" THEN [state |-> "active", thrown |-> "ok"]
             ELSE [state |-> "ready", thrown |-> q.thrown]

SC_start(firstClickAfter, clicks, offset) ==
    /\ kind = "scheduled"
    /\ IF SC_startRejects(firstClickAfter, clicks, offset)
       THEN /\ result' = "error"
            /\ UNCHANGED <<clickerVars, message>>
       ELSE LET after == firstClickAfter.v
                p == PrefixScan(clicks, after, 0)
                q == SuffixScan(clicks, after, offset.v, p.c, destinations,
                                SC_disposeSources(sources))
            IN  IF p.thrown
                THEN \* thrown after _disposeSources
                     /\ result' = "error"
                     /\ message' = NotConsecutive(clicks[p.c + 1], clicks[p.c + 2], p.c)
                     /\ sources' = SC_disposeSources(sources)
                     /\ UNCHANGED <<baseVars, intervalVars, clickTimes, timeAtStart,
                                    nextClickIndex>>
                ELSE IF clicks[p.c + 1] < after
                THEN \* this.pause(); return
                     /\ result' = "ok"
                     /\ sources' = SC_disposeSources(sources)
                     /\ clickTimes' = <<>>
                     /\ nextClickIndex' = 0
                     /\ state' = "ready"
                     /\ UNCHANGED <<context, destinations, intervalVars, timeAtStart,
                                    message>>
                ELSE /\ timeAtStart' = clock
                     /\ clickTimes' = clicks
                     /\ nextClickIndex' = p.c
                     /\ sources' = q.srcs
                     /\ result' = q.thrown
                     \* the message of the second loop is built from c, not c + i
                     /\ message' = IF q.thrown = "error"
                                   THEN NotConsecutive(clicks[p.c + 1], clicks[q.at + 2], p.c)
                                   ELSE message
                     /\ state' = IF q.thrown = "ok" THEN "active" ELSE state
                     /\ UNCHANGED <<context, destinations, intervalVars>>
    /\ UNCHANGED <<fixedVars, clock, chains, framed, detached>>

\* pause that leaves the stored timeline and index as they are
SC_pause_keepsTimeline ==
    /\ kind = "scheduled"
    /\ IF throwIfClosed
       THEN /\ result' = "error"
            /\ UNCHANGED clickerVars
       ELSE /\ result' = "ok"
            /\ sources' = SC_disposeSources(sources)
            /\ state' = "ready"
            /\ UNCHANGED <<context, destinations, intervalVars, timeAtStart,
                           clickTimes, nextClickIndex>>
    /\ UNCHANGED <<fixedVars, message, clock, chains, framed, detached>>

SC_pause ==
    /\ kind = "scheduled"
    /\ IF throwIfClosed
       THEN /\ result' = "error"
            /\ UNCHANGED clickerVars
       ELSE /\ result' = "ok"
            /\ sources' = SC_disposeSources(sources)
            /\ clickTimes' = <<>>
            /\ nextClickIndex' = 0
            /\ state' = "ready"
            /\ UNCHANGED <<context, destinations, intervalVars, timeAtStart>>
    /\ UNCHANGED <<fixedVars, message, clock, chains, framed, detached>>

SC_close ==
    /\ kind = "scheduled"
    /\ result' = "ok"
    /\ IF state = "closed"
       THEN UNCHANGED clickerVars
       ELSE /\ destinations' = <<>>
            /\ sources' = SC_disposeSources(sources)
            /\ context' = "null"
            /\ clickTimes' = <<>>
            /\ state' = "closed"
            /\ UNCHANGED <<intervalVars, timeAtStart, nextClickIndex>>
    /\ UNCHANGED <<fixedVars, message, clock, chains, framed, detached>>

\* The handler set in schedule(): its console.debug argument reads
\* this._context.currentTime and this._clickTimes[idx], which throws when
\* either is null; otherwise _nextClickIndex++ and _sources.shift().
ScheduleHandlerThrows == context = "null" \/ clickTimes = <<>>

\* an ended handler that makes the clicker ready when the queue runs empty
SC_ended_deactivates(i) ==
    /\ kind = "scheduled"
    /\ i \in 1..Len(sources)
    /\ ~sources[i].ended
    /\ MayEnd(sources[i], ScheduledPending)
    /\ LET marked == [sources EXCEPT ![i].ended = TRUE]
       IN  IF ScheduleHandlerThrows
           THEN /\ sources' = marked
                /\ UNCHANGED <<nextClickIndex, detached>>
           ELSE /\ marked[1].ended \/ Cardinality(detached) < MaxDetached
                /\ nextClickIndex' = nextClickIndex + 1
                /\ sources' = Tail(marked)
                /\ detached' = IF marked[1].ended THEN detached
                               ELSE detached \cup {marked[1]}
    /\ state' = IF Len(sources) = 1 THEN "ready" ELSE state
    /\ UNCHANGED <<context, destinations, intervalVars, clickTimes, timeAtStart,
                   fixedVars, message, result, clock, chains, framed>>

\* The "ended" event of the node at position i of _sources.  shift() removes
\* the head; a head that is not the node that ended is referred to by no
\* field any more, with its handler still set.
SC_ended(i) ==
    /\ kind = "scheduled"
    /\ i \in 1..Len(sources)
    /\ ~sources[i].ended
    /\ MayEnd(sources[i], ScheduledPending)
    /\ LET marked == [sources EXCEPT ![i].ended = TRUE]
       IN  IF ScheduleHandlerThrows
           THEN /\ sources' = marked
                /\ UNCHANGED <<nextClickIndex, detached>>
           ELSE /\ marked[1].ended \/ Cardinality(detached) < MaxDetached
                /\ nextClickIndex' = nextClickIndex + 1
                /\ sources' = Tail(marked)
                /\ detached' = IF marked[1].ended THEN detached
                               ELSE detached \cup {marked[1]}
    /\ UNCHANGED <<baseVars, intervalVars, clickTimes, timeAtStart,
                   fixedVars, message, result, clock, chains, framed>>

\* The "ended" event of a node that is no longer in _sources
SC_endedDetached(s) ==
    /\ kind = "scheduled"
    /\ s \in detached
    /\ MayEnd(s, ScheduledPending)
    /\ IF ScheduleHandlerThrows
       THEN /\ detached' = detached \ {s}
            /\ UNCHANGED <<nextClickIndex, sources>>
       ELSE /\ nextClickIndex' = nextClickIndex + 1
            /\ sources' = IF sources = <<>> THEN sources ELSE Tail(sources)
            /\ detached' = (detached \ {s}) \cup
                           (IF sources = <<>> \/ sources[1].ended THEN {} ELSE {sources[1]})
    /\ UNCHANGED <<baseVars, intervalVars, clickTimes, timeAtStart,
                   fixedVars, message, result, clock, chains, framed>>

----------------------------------------------------------------------------
(* The clock *)

Advance ==
    /\ clock < MaxTime
    /\ clock' = clock + 1
    /\ framed' = FALSE
    /\ UNCHANGED <<fixedVars, message, result, chains, detached, clickerVars>>

----------------------------------------------------------------------------
(* File mode: the beats handed to ScheduledClicker.start *)

RECURSIVE Pow2(_)
Pow2(p) == IF p = 0 THEN 1 ELSE 2 * Pow2(p - 1)

\* Beat times are float32 values (state.analysis.beats and adjustedBeats are
\* Float32Arrays); a value is counted in steps of the float32 grid around it.
\* What is stored into a Float32Array is the nearest grid value, the even one
\* when two are equally near: here for the quotient num / den.
Fround(num, den) ==
    LET f == num \div den
        r == num % den
    IN  IF 2 * r < den THEN f
        ELSE IF 2 * r > den THEN f + 1
        ELSE IF f % 2 = 0 THEN f ELSE f + 1

\* Math.floor(n / divisor) in place of Math.ceil
CeilDiv_floor(n, d) == n \div d

\* Math.ceil(n / divisor)
CeilDiv(n, d) == (n + d - 1) \div d

\* the subdivision without the assignment of the last entry, which the
\* Float32Array then holds as 0
Subdivide_noLast(b, multiplier) ==
    LET newLength == (Len(b) - 1) * multiplier + 1
    IN  [k \in 1..newLength |->
            IF k = newLength THEN 0
            ELSE LET i == (k - 1) \div multiplier
                     j == (k - 1) % multiplier
                 IN  Fround(b[i + 1] * multiplier + (b[i + 2] - b[i + 1]) * j, multiplier)]

\* tempoPower > 0: adjustedBeats[i * multiplier + j] = start + interval * j,
\* and the last entry is the last beat
Subdivide(b, multiplier) ==
    LET newLength == (Len(b) - 1) * multiplier + 1
    IN  [k \in 1..newLength |->
            IF k = newLength THEN b[Len(b)]
            ELSE LET i == (k - 1) \div multiplier
                     j == (k - 1) % multiplier
                 IN  Fround(b[i + 1] * multiplier + (b[i + 2] - b[i + 1]) * j, multiplier)]

\* tempoPower < 0: adjustedBeats[i] = beats[i * divisor]
Decimate(b, divisor) ==
    [k \in 1..CeilDiv(Len(b), divisor) |-> b[(k - 1) * divisor + 1]]

\* adjustedBeats of _startClicker
AdjustedBeats(b, p) ==
    IF p = 0 THEN b
    ELSE IF p > 0 THEN Subdivide(b, Pow2(p))
    ELSE Decimate(b, Pow2(-p))

\* _startClicker from the test on beats.length to the call of start, with
\* playback at song time 0 and no click offset: the arguments start is
\* called with
FM_adjustBeats ==
    /\ kind = "scheduled"
    /\ Len(beats) # 0
    /\ args' = <<Num(0), AdjustedBeats(beats, tempoPower), Num(0)>>
    /\ UNCHANGED <<kind, options, message, beats, tempoPower, controllerVars, result, clock,
                   chains, framed, detached, clickerVars>>

----------------------------------------------------------------------------
(* Inputs *)

\* when and interval of IntervalClicker.start: every accepted combination,
\* and each kind of rejected argument
IntervalStartInputs ==
    {<<Num(w), "spc", Num(t)>> : w \in {0, 1}, t \in {4, 5}}
    \cup {<<Num(0), "bpm", Num(3000)>>,       \* 60 / 3000 s = 4 units
          <<Num(0), "bpm", Num(4000)>>,       \* 60 / 4000 s = 3 units < MIN_INTERVAL
          <<Num(0), "bpm", Num(0)>>,          \* 60 / 0 = Infinity
          <<Num(0), "spc", Num(3)>>, <<Num(0), "spc", Num(2)>>, <<Num(0), "spc", NaN>>,
          <<Num(0), "hz", Num(4)>>,
          <<Num(-1), "spc", Num(4)>>, <<NaN, "spc", Num(4)>>}

StrictlyIncreasing(clicks) ==
    \A i \in 1..(Len(clicks) - 1) : clicks[i] < clicks[i + 1]

\* firstClickAfter, clicks and offset of ScheduledClicker.start, as the
\* timing of the clicks is explored with: resumed at, between and past the
\* clicks, with and without an offset, with a pair out of order before and
\* after the resume point, and each rejected argument
ScheduledStartInputs ==
    {<<Num(a), c, Num(o)>> : a \in {0, 1}, c \in {<<0, 2>>, <<0, 1, 2>>}, o \in {-1, 0}}
    \cup {<<Num(3), <<0, 1>>, Num(0)>>,
          <<Num(0), <<0, 1, 1>>, Num(0)>>, <<Num(2), <<1, 0, 2>>, Num(0)>>,
          <<Num(-1), <<0, 1>>, Num(0)>>, <<NaN, <<0, 1>>, Num(0)>>,
          <<Num(0), <<>>, Num(0)>>, <<Num(0), <<0, 1>>, NaN>>}

\* the same arguments, exhaustively: every list of up to MaxClicks click
\* times in 0..MaxClickTime, increasing or not, every resume point from
\* before the first to past the last, and the offsets
MaxClickTime == 2
MaxClicks == 3
ClickLists == UNION {[1..n -> 0..MaxClickTime] : n \in 0..MaxClicks}
AllScheduledStartInputs ==
    {<<a, c, o>> : a \in {Num(v) : v \in -1..(MaxClickTime + 1)} \cup {NaN},
                   c \in ClickLists,
                   o \in {Num(-1), Num(0), NaN}}

\* the state a constructor leaves
Constructed ==
    /\ kind \in {"interval", "scheduled"}
    /\ options \in IF kind = "interval" THEN Patterns ELSE {Pattern1}
    /\ state = "ready"
    /\ context = "ctx"
    /\ destinations = <<>>
    /\ result = "ok"
    /\ clock = 0
    /\ currentSource = NoSource
    /\ futureSource = NoSource
    /\ interval = 0
    /\ next = Null
    /\ timeFirstClick = Null
    /\ beatCountScheduling = 0
    /\ beatCountCurrent = 0
    /\ chains = 0
    /\ framed = FALSE
    /\ detached = {}
    /\ sources = <<>>
    /\ clickTimes = <<>>
    /\ timeAtStart = Null
    /\ nextClickIndex = 0
    /\ message = <<>>

NoArgs == <<NaN, <<>>, NaN>>
NoBeats == beats = <<>> /\ tempoPower = 0

\* the module variables of a mode controller before setup: no clicker yet
NoController ==
    /\ clickers = <<>> /\ clicker = 0 /\ playing = FALSE /\ isSetup = FALSE
    /\ bpm = Num(120)
    /\ contextTimeAtStart = Null /\ songTimeAtStart = Null /\ songTimeLast = Null
    /\ playbackContext = 0 /\ contextCount = 0 /\ startedContext = 0
    /\ loading = "idle" /\ resumeAfter = Null

Init == Constructed /\ args = NoArgs /\ NoBeats /\ NoController

\* Lifecycle and timing of both clickers: start, pause, close, the refresh
\* ticks, the "ended" events and the clock.
Next ==
    \/ Advance
    \/ \E in \in IntervalStartInputs : IC_start(in[1], in[2], in[3])
    \/ IC_frame
    \/ IC_pause
    \/ IC_close
    \/ \E s \in IntervalPending : IC_ended(s)
    \/ \E in \in ScheduledStartInputs : SC_start(in[1], in[2], in[3])
    \/ SC_pause
    \/ SC_close
    \/ \E i \in 1..Len(sources) : SC_ended(i)

Spec == Init /\ [][Next]_vars

\* Every public method with the callbacks and the clock: connect and
\* disconnect with every argument, before, during and after a run of each
\* clicker.
RoutingIntervalInputs == {<<Num(0), "spc", Num(4)>>, <<Num(0), "spc", Num(3)>>}
RoutingScheduledInputs ==
    {<<Num(0), <<0, 2>>, Num(0)>>, <<Num(0), <<>>, Num(0)>>,
     <<Num(3), <<0, 2>>, Num(0)>>}        \* every click is before firstClickAfter

NextRouting ==
    \/ Advance
    \/ \E arg \in DestinationArgs : IC_connect(arg)
    \/ \E arg \in DestinationArgs : IC_disconnect(arg)
    \/ \E in \in RoutingIntervalInputs : IC_start(in[1], in[2], in[3])
    \/ IC_frame
    \/ IC_pause
    \/ IC_close
    \/ \E s \in IntervalPending : IC_ended(s)
    \/ \E arg \in DestinationArgs : SC_connect(arg)
    \/ \E arg \in DestinationArgs : SC_disconnect(arg)
    \/ \E in \in RoutingScheduledInputs : SC_start(in[1], in[2], in[3])
    \/ SC_pause
    \/ SC_close
    \/ \E i \in 1..Len(sources) : SC_ended(i)

SpecRouting == Init /\ [][NextRouting]_vars

\* ScheduledClicker.start on the arguments `args`, drawn from every
\* combination, in a clicker that is fresh, running, paused or closed.
InitStart ==
    /\ Constructed /\ kind = "scheduled" /\ args \in AllScheduledStartInputs
    /\ NoBeats /\ NoController

SC_startArgs == SC_start(args[1], args[2], args[3])
SC_startBefore == SC_start(Num(0), <<0, 1>>, Num(0))

NextStart ==
    \/ SC_startArgs
    \/ SC_startBefore
    \/ SC_pause
    \/ SC_close

SpecStart == InitStart /\ [][NextStart]_vars

\* The order of the "ended" events of a ScheduledClicker: start with clicks
\* ahead of the clock and, through a negative offset, with clicks whose stop
\* time is already past when they are scheduled.
OrderInputs ==
    {<<Num(a), c, Num(o)>> : a \in {0, 1}, c \in {<<0, 1>>, <<0, 2, 4>>}, o \in {-4, 0}}

NextOrder ==
    \/ Advance
    \/ \E in \in OrderInputs : SC_start(in[1], in[2], in[3])
    \/ SC_pause
    \/ SC_close
    \/ \E i \in 1..Len(sources) : SC_ended(i)
    \/ \E s \in detached : SC_endedDetached(s)

InitOrder == Constructed /\ kind = "scheduled" /\ args = NoArgs /\ NoBeats /\ NoController

SpecOrder == InitOrder /\ [][NextOrder]_vars

\* One run of a ScheduledClicker at a time: start is called on a clicker
\* that is not active or whose queue has run empty, and only while every
\* node it schedules stops within the time explored.  The clock keeps
\* advancing and an "ended" event that is due is dispatched.
DrainStart(firstClickAfter, clicks, offset) ==
    /\ state # "active" \/ (sources = <<>> /\ detached = {})
    /\ SC_start(firstClickAfter, clicks, offset)
    /\ \A i \in 1..Len(sources') : sources'[i].ripe <= MaxTime

NextDrain ==
    \/ Advance
    \/ \E in \in OrderInputs : DrainStart(in[1], in[2], in[3])
    \/ SC_pause
    \/ SC_close
    \/ \E i \in 1..Len(sources) : SC_ended(i)
    \/ \E s \in detached : SC_endedDetached(s)

SpecDrain ==
    /\ InitOrder
    /\ [][NextDrain]_vars
    /\ WF_vars(Advance)
    /\ WF_vars(\E i \in 1..Len(sources) : SC_ended(i))
    /\ WF_vars(\E s \in detached : SC_endedDetached(s))

\* _startClicker of file mode on every list of up to MaxBeats beats in
\* 0..MaxBeatTime, increasing or not, and every tempo power up to MaxPower
\* either way.
MaxBeats == 3
MaxBeatTime == 6
MaxPower == 2
BeatLists == UNION {[1..n -> 0..MaxBeatTime] : n \in 1..MaxBeats}

InitTempo ==
    /\ Constructed /\ kind = "scheduled"
    /\ args = NoArgs
    /\ beats \in BeatLists
    /\ tempoPower \in -MaxPower..MaxPower
    /\ NoController

NextTempo ==
    \/ FM_adjustBeats
    \/ SC_startArgs

SpecTempo == InitTempo /\ [][NextTempo]_vars

----------------------------------------------------------------------------
(* The mode controllers: manual mode (src/unnamed/part_004, driven by      *)
(* manual-mode/background.js) holds an IntervalClicker in `clicker`, file  *)
(* mode (file-mode/audio.js, driven by src/unnamed/part_009) holds a       *)
(* ScheduledClicker in playback.clicker.  Of a clicker only its state is   *)
(* kept here; whether its start throws is computed as start computes it.   *)

MaxClickers == 4      \* no clicker is constructed once that many have been
MaxContexts == 2      \* no file is loaded once that many playback contexts have been

clickOffset == 0                  \* file mode: state.clickOffset
duration == 4                     \* file mode: playback.buffer.duration, state.duration
BpmValues == {15, 120, 500}       \* manual mode: state.bpm, kept in [15, 500] by setBPM
SongTimes == 0..3                 \* file mode: the song time a clicker is started at
SeekTimes == {0, 2}               \* file mode: the song times the sidebar seeks to
\* file mode: the beat lists the analysis posts
AnalysisBeats == UNION {[1..n -> 1..2] : n \in 0..2}
UpdateBeats == {<<>>, <<1, 2>>}   \* file mode: the lists of an analysis that goes well

\* what no operation of a mode controller assigns
uncontrolled == <<kind, options, message, args, tempoPower, clock, chains, framed,
                  detached, clickerVars>>

\* null used as a number
NumberOf(x) == IF x = Null THEN 0 ELSE x

\* a value received in a message: a finite number, NaN, Infinity, a string
\* that is not a numeral, or nothing
Received(k, v) == [kind |-> k, v |-> v]
BpmRequests ==
    {Received("number", v) : v \in BpmValues \cup {14, 501}}
        \cup {Received(k, 0) : k \in {"NaN", "Infinity", "string", "undefined"}}
Targets == {"undefined", "true", "false"}    \* message.data.statePlaying

\* value < 15 || value > 500
OutOfRange(r) ==
    \/ r.kind = "number" /\ (r.v < 15 \/ r.v > 500)
    \/ r.kind = "Infinity"
\* typeof value !== "number"
NotANumber(r) == r.kind \in {"string", "undefined"}
\* the value as state.bpm holds it
Stored(r) == IF r.kind = "number" THEN Num(r.v) ELSE NaN

\* clicker?.close()
CloseHeld(cs, ref) == IF ref = 0 THEN cs ELSE [cs EXCEPT ![ref] = "closed"]

\* start(0, {time: bpm, type: "bpm"}) of an IntervalClicker that is not closed
IC_startOutcome(b) ==
    IF IntervalInvalid(IntervalTime("bpm", b))
    THEN [thrown |-> "error"]
    ELSE [thrown |-> "ok"]

\* manual mode, start() and the branch of setTimeSignature: close the clicker
\* held, construct one, assign it to `clicker`, connect it, start it
MM_replace(b) ==
    LET o == IC_startOutcome(b)
        all == Append(CloseHeld(clickers, clicker),
                      IF o.thrown = "ok" THEN "active" ELSE "ready")
    IN  [cs |-> all, ref |-> Len(all), thrown |-> o.thrown]

\* background "toggle": setup() and start() with state.playing = true after
\* them, or close() with state.playing = false; nothing when state.playing
\* is the state asked for
MM_toggle(target) ==
    /\ kind = "interval"
    /\ LET newState == IF target # "undefined" THEN target = "true" ELSE ~playing
       IN  IF playing = newState
           THEN /\ result' = "ok"
                /\ UNCHANGED <<clickers, clicker, playing, isSetup>>
           ELSE IF newState
           THEN /\ Len(clickers) < MaxClickers
                /\ LET r == MM_replace(bpm)
                   IN  /\ clickers' = r.cs
                       /\ clicker' = r.ref
                       /\ result' = r.thrown
                       /\ playing' = (r.thrown = "ok")
                /\ isSetup' = TRUE
           ELSE /\ clickers' = IF isSetup THEN CloseHeld(clickers, clicker) ELSE clickers
                /\ clicker' = IF isSetup THEN 0 ELSE clicker
                /\ isSetup' = FALSE
                /\ playing' = FALSE
                /\ result' = "ok"
    /\ UNCHANGED <<uncontrolled, beats, bpm, fileVars>>

\* manual mode pause()
MM_pause ==
    /\ kind = "interval"
    /\ isSetup
    /\ IF clicker # 0 /\ clickers[clicker] = "closed"
       THEN result' = "error" /\ UNCHANGED clickers
       ELSE /\ result' = "ok"
            /\ clickers' = IF clicker = 0 THEN clickers
                           ELSE [clickers EXCEPT ![clicker] = "ready"]
    /\ UNCHANGED <<uncontrolled, beats, bpm, fileVars, clicker, playing, isSetup>>

\* manual mode setBPM(value): a failure for a value whose type is not number
\* or that compares below 15 or above 500; otherwise state.bpm is assigned
\* and a clicker that plays is started again
MM_setBPM(value) ==
    /\ kind = "interval"
    /\ IF NotANumber(value) \/ OutOfRange(value)
       THEN result' = "failure" /\ UNCHANGED <<bpm, clickers>>
       ELSE /\ bpm' = Stored(value)
            /\ IF playing /\ clicker # 0
               THEN IF clickers[clicker] = "closed"
                    THEN result' = "error" /\ UNCHANGED clickers
                    ELSE /\ result' = IC_startOutcome(Stored(value)).thrown
                         /\ clickers' = IF IC_startOutcome(Stored(value)).thrown = "ok"
                                        THEN [clickers EXCEPT ![clicker] = "active"]
                                        ELSE clickers
               ELSE result' = "ok" /\ UNCHANGED clickers
    /\ UNCHANGED <<uncontrolled, beats, fileVars, clicker, playing, isSetup>>

\* background "change-bpm": a failure for no value and for one that compares
\* below 15 or above 500, otherwise setBPM and the assignment of state.bpm
MM_changeBpm(newBpm) ==
    IF newBpm.kind = "undefined" \/ OutOfRange(newBpm)
    THEN /\ kind = "interval"
         /\ result' = "failure"
         /\ UNCHANGED <<uncontrolled, beats, bpm, fileVars, clickers, clicker, playing,
                        isSetup>>
    ELSE MM_setBPM(newBpm)

\* background "tap", once the taps required are counted: newBPM is what
\* calculateAverageBPM returns, null or a rounded quotient
MM_tap(newBPM) ==
    IF newBPM.kind = "number" /\ newBPM.v >= 15 /\ newBPM.v <= 500
    THEN MM_setBPM(newBPM)
    ELSE /\ kind = "interval"
         /\ result' = "ok"
         /\ UNCHANGED <<uncontrolled, beats, bpm, fileVars, clickers, clicker, playing,
                        isSetup>>

\* manual mode setTimeSignature(value), value one of the valid signatures
MM_setTimeSignature ==
    /\ kind = "interval"
    /\ IF playing /\ clicker # 0
       THEN /\ Len(clickers) < MaxClickers
            /\ LET r == MM_replace(bpm)
               IN  /\ clickers' = r.cs
                   /\ clicker' = r.ref
                   /\ result' = r.thrown
       ELSE result' = "ok" /\ UNCHANGED <<clickers, clicker>>
    /\ UNCHANGED <<uncontrolled, beats, bpm, fileVars, playing, isSetup>>

\* background "change-time-signature": a failure for no value and for one
\* setTimeSignature does not list
MM_changeTimeSignature(valid) ==
    IF valid
    THEN MM_setTimeSignature
    ELSE /\ kind = "interval"
         /\ result' = "failure"
         /\ UNCHANGED <<uncontrolled, beats, bpm, fileVars, clickers, clicker, playing,
                        isSetup>>

\* background "change-volume": the gain is no part of the state kept here
MM_changeVolume(valid) ==
    /\ kind = "interval"
    /\ result' = IF valid THEN "ok" ELSE "failure"
    /\ UNCHANGED <<uncontrolled, beats, controllerVars>>

\* file mode: isBufferSetup() and the song position now
IsBufferSetup == playbackContext # 0 /\ loading \in {"idle", "analysing"}
SongTimeNow == clock - NumberOf(contextTimeAtStart) + NumberOf(songTimeAtStart)

\* file mode _startClicker(songTime) on the beat list b: nothing for an empty
\* list or a song time past the end; otherwise the clicker held is closed,
\* one is constructed, connected and started, and assigned to
\* playback.clicker when start has returned
StartClicker(songTime, b) ==
    IF Len(b) = 0 \/ songTime > duration
    THEN [cs |-> clickers, ref |-> clicker, thrown |-> "ok", after |-> resumeAfter]
    ELSE LET o == SC_startOutcome(Num(songTime), AdjustedBeats(b, tempoPower),
                                  Num(clickOffset))
             all == Append(CloseHeld(clickers, clicker), o.state)
         IN  [cs |-> all,
              ref |-> IF o.thrown = "ok" THEN Len(all) ELSE clicker,
              thrown |-> o.thrown,
              after |-> songTime]

\* file mode close(), up to its await: every field of playback is released
CloseAudio ==
    /\ clickers' = CloseHeld(clickers, clicker)
    /\ clicker' = 0
    /\ playbackContext' = 0
    /\ isSetup' = FALSE

\* background "load-file": close() and the close() of setup(buffer), up to
\* their await of the analyser
FM_loadFile ==
    /\ kind = "scheduled"
    /\ loading = "idle"
    /\ contextCount < MaxContexts
    /\ CloseAudio
    /\ loading' = "closing"
    /\ result' = "ok"
    /\ UNCHANGED <<uncontrolled, beats, bpm, playing, contextTimeAtStart, songTimeAtStart,
                   songTimeLast, contextCount, startedContext, resumeAfter>>

\* _setupPlayback up to its await: playback.context = new AudioContext()
FM_loadContext ==
    /\ kind = "scheduled"
    /\ loading = "closing"
    /\ contextCount' = contextCount + 1
    /\ playbackContext' = contextCount + 1
    /\ loading' = "decoding"
    /\ UNCHANGED <<uncontrolled, result, beats, bpm, clickers, clicker, playing, isSetup,
                   contextTimeAtStart, songTimeAtStart, songTimeLast, startedContext,
                   resumeAfter>>

\* _setupPlayback after decodeAudioData: the buffer and the gains, and
\* _setupAnalysis up to its awaits
FM_loadBuffer ==
    /\ kind = "scheduled"
    /\ loading = "decoding"
    /\ loading' = "analysing"
    /\ UNCHANGED <<uncontrolled, result, beats, bpm, clickers, clicker, playing, isSetup,
                   contextTimeAtStart, songTimeAtStart, songTimeLast, playbackContext,
                   contextCount, startedContext, resumeAfter>>

\* the analyser is constructed and rendering started, setup returns and the
\* handler resets the state; audio.startAnalysis is not a function
FM_loadFinish ==
    /\ kind = "scheduled"
    /\ loading = "analysing"
    /\ loading' = "idle"
    /\ isSetup' = TRUE
    /\ playing' = FALSE
    /\ contextTimeAtStart' = Null
    /\ songTimeLast' = 0
    /\ songTimeAtStart' = Null
    /\ beats' = <<>>
    /\ result' = "error"
    /\ UNCHANGED <<uncontrolled, bpm, clickers, clicker, playbackContext, contextCount,
                   startedContext, resumeAfter>>

\* file mode start(songTime) from its buffer source on, songTime resolved
AudioStart(songTime) ==
    /\ Len(clickers) < MaxClickers
    /\ LET r == IF Len(beats) > 0 THEN StartClicker(songTime, beats)
                ELSE [cs |-> clickers, ref |-> clicker, thrown |-> "ok",
                      after |-> resumeAfter]
       IN  /\ clickers' = r.cs
           /\ clicker' = r.ref
           /\ result' = r.thrown
           /\ resumeAfter' = r.after
           /\ IF r.thrown = "ok"
              THEN /\ playing' = TRUE
                   /\ contextTimeAtStart' = clock
                   /\ songTimeAtStart' = songTime
                   /\ startedContext' = playbackContext
              ELSE UNCHANGED <<playing, contextTimeAtStart, songTimeAtStart,
                               startedContext>>
    /\ UNCHANGED <<uncontrolled, beats, bpm, isSetup, songTimeLast, playbackContext,
                   contextCount, loading>>

\* a call that returns failure(...) and assigns nothing
FM_failure ==
    /\ result' = "failure"
    /\ UNCHANGED <<uncontrolled, beats, controllerVars>>

\* file mode start(songTime) with a song time given: a seek while playing
FM_start(songTime) ==
    /\ kind = "scheduled"
    /\ IF ~isSetup \/ songTime < 0 \/ songTime > duration
       THEN FM_failure
       ELSE AudioStart(songTime)

\* file mode start(): from the position played, or from the one paused at
FM_startFromState ==
    /\ kind = "scheduled"
    /\ IF ~isSetup
       THEN FM_failure
       ELSE AudioStart(IF playing THEN SongTimeNow ELSE NumberOf(songTimeLast))

\* file mode pause()
FM_pause ==
    /\ kind = "scheduled"
    /\ IF ~IsBufferSetup
       THEN FM_failure
       ELSE /\ IF clicker # 0 /\ clickers[clicker] = "closed"
               THEN /\ result' = "error"
                    /\ UNCHANGED <<clickers, playing, songTimeLast, contextTimeAtStart,
                                   songTimeAtStart>>
               ELSE /\ result' = "ok"
                    /\ clickers' = IF clicker = 0 THEN clickers
                                   ELSE [clickers EXCEPT ![clicker] = "ready"]
                    /\ playing' = FALSE
                    /\ songTimeLast' = SongTimeNow
                    /\ contextTimeAtStart' = Null
                    /\ songTimeAtStart' = Null
            /\ UNCHANGED <<uncontrolled, beats, bpm, clicker, isSetup, playbackContext,
                           contextCount, startedContext, loading, resumeAfter>>

\* file mode close(): background "unload-file"
FM_close ==
    /\ kind = "scheduled"
    /\ loading = "idle"
    /\ CloseAudio
    /\ result' = "ok"
    /\ UNCHANGED <<uncontrolled, beats, bpm, playing, contextTimeAtStart, songTimeAtStart,
                   songTimeLast, contextCount, startedContext, loading, resumeAfter>>

\* background "toggle" of file mode: statePlaying is used when it is truthy,
\* the state is inverted otherwise
FM_toggle(target) ==
    LET newState == IF target = "true" THEN TRUE ELSE ~playing
    IN  IF playing = newState
        THEN /\ kind = "scheduled"
             /\ result' = "ok"
             /\ UNCHANGED <<uncontrolled, beats, controllerVars>>
        ELSE IF newState THEN FM_startFromState ELSE FM_pause

\* background "seek" to the song time newTime = position * state.duration
FM_seek(newTime) ==
    IF playing
    THEN FM_start(newTime)
    ELSE /\ kind = "scheduled"
         /\ songTimeLast' = newTime
         /\ result' = "ok"
         /\ UNCHANGED <<uncontrolled, beats, bpm, clickers, clicker, playing, isSetup,
                        contextTimeAtStart, songTimeAtStart, playbackContext, contextCount,
                        startedContext, loading, resumeAfter>>

\* the "ended" event of the song's buffer source: pause()
FM_songEnded ==
    /\ playing
    /\ isSetup
    /\ SongTimeNow >= duration
    /\ FM_pause

\* the analysers constructed so far; each posts "update" messages for as
\* long as it renders, closed or not
Analysers == IF loading = "idle" THEN contextCount ELSE contextCount - 1

\* file mode, the "update" message of an analyser: state.analysis is
\* replaced, and the clicker restarted when playing.  playback.context and
\* playback.buffer are read without a check.
FM_analysisUpdate(b) ==
    /\ kind = "scheduled"
    /\ Analysers > 0
    /\ Len(clickers) < MaxClickers
    /\ beats' = b
    /\ IF playing /\ (playbackContext = 0 \/ (loading = "decoding" /\ Len(b) > 0))
       THEN /\ result' = "error"
            /\ UNCHANGED <<clickers, clicker, resumeAfter>>
       ELSE LET r == IF playing
                     THEN StartClicker(clock - NumberOf(contextTimeAtStart), b)
                     ELSE [cs |-> clickers, ref |-> clicker, thrown |-> "ok",
                           after |-> resumeAfter]
            IN  /\ clickers' = r.cs
                /\ clicker' = r.ref
                /\ result' = r.thrown
                /\ resumeAfter' = r.after
    /\ UNCHANGED <<uncontrolled, bpm, playing, isSetup, contextTimeAtStart,
                   songTimeAtStart, songTimeLast, playbackContext, contextCount,
                   startedContext, loading>>

\* The functions the two audio modules export, called in any order
NextControllers ==
    \/ \E target \in Targets : MM_toggle(target)
    \/ MM_pause
    \/ \E value \in BpmRequests : MM_setBPM(value)
    \/ MM_setTimeSignature
    \/ FM_loadFile
    \/ FM_loadContext
    \/ FM_loadBuffer
    \/ FM_loadFinish
    \/ \E songTime \in SongTimes : FM_start(songTime)
    \/ FM_pause
    \/ FM_close
    \/ \E b \in AnalysisBeats : FM_analysisUpdate(b)

InitControllers == Constructed /\ args = NoArgs /\ NoBeats /\ NoController

SpecControllers == InitControllers /\ [][NextControllers]_vars

\* The messages the two background scripts handle, the analyser's updates,
\* the end of the song and the clock
NextHandlers ==
    \/ Advance /\ clock < duration
    \/ \E target \in Targets : MM_toggle(target)
    \/ \E newBpm \in BpmRequests : MM_changeBpm(newBpm)
    \/ \E valid \in BOOLEAN : MM_changeTimeSignature(valid)
    \/ \E valid \in BOOLEAN : MM_changeVolume(valid)
    \/ \E newBPM \in BpmRequests : MM_tap(newBPM)
    \/ FM_loadFile
    \/ FM_loadContext
    \/ FM_loadBuffer
    \/ FM_loadFinish
    \/ FM_close
    \/ \E target \in Targets : FM_toggle(target)
    \/ \E newTime \in SeekTimes : FM_seek(newTime)
    \/ FM_songEnded
    \/ \E b \in UpdateBeats : FM_analysisUpdate(b)

SpecHandlers == InitControllers /\ [][NextHandlers]_vars

----------------------------------------------------------------------------
(* Properties *)

NoDuplicates(list) == \A i, j \in 1..Len(list) : i # j => list[i] # list[j]

\* the arguments that ScheduledClicker.start validates before its scans
WellFormed(in) == IsFinite(in[1]) /\ in[1].v >= 0 /\ Len(in[2]) > 0 /\ IsFinite(in[3])

\* some click is at or after the resume point; the first such index, 0-based
HasResume(clicks, after) == \E k \in 1..Len(clicks) : clicks[k] >= after
ResumeIndex(clicks, after) ==
    (CHOOSE k \in 1..Len(clicks) :
        clicks[k] >= after /\ \A j \in 1..(k - 1) : clicks[j] < after) - 1

\* a node whose stop time is still ahead
Sounding(s) == clock < s.start + clickDuration
LiveInterval == {s \in SlotSources \cup detached : ~s.ended /\ Sounding(s)}

\* C1: once the clicker is closed it stays closed and no field of it changes
\* any more, whatever is called or called back; connect, disconnect, start
\* and pause end with an error, close ends without one.
C1_ClosedIsFinal ==
    [][state = "closed" =>
        /\ state' = "closed"
        /\ UNCHANGED clickerVars
        /\ \A arg \in DestinationArgs :
              (IC_connect(arg) \/ IC_disconnect(arg) \/ SC_connect(arg) \/ SC_disconnect(arg))
                  => result' = "error"
        /\ \A in \in RoutingIntervalInputs : IC_start(in[1], in[2], in[3]) => result' = "error"
        /\ \A in \in RoutingScheduledInputs : SC_start(in[1], in[2], in[3]) => result' = "error"
        /\ (IC_pause \/ SC_pause) => result' = "error"
        /\ (IC_close \/ SC_close) => result' = "ok"]_vars

\* a call was refused after close()
C1_Witness == state = "closed" /\ result = "error"

\* C2: the destination list never holds a destination twice, connect(d)
\* leaves d in it, and disconnect(d) of a destination that is not in the list
\* returns without an error and leaves the list as it was.
C2_DestinationIdempotence ==
    [][/\ NoDuplicates(destinations')
       /\ \A d \in Destinations :
            /\ (state # "closed" /\ (IC_connect(Given(<<d>>)) \/ SC_connect(Given(<<d>>))))
                  => Cardinality({i \in 1..Len(destinations') : destinations'[i] = d}) = 1
            /\ (/\ state # "closed"
                /\ d \notin Range(destinations)
                /\ (IC_disconnect(Given(<<d>>)) \/ SC_disconnect(Given(<<d>>))))
                  => result' = "ok" /\ destinations' = destinations]_vars

\* C3: start(when, interval) at clock time t sets firstClickTime = t + when
\* and schedules click 0 there; every click a tick creates is the next index
\* n and starts at firstClickTime + n * interval, however late the tick is.
C3_IntervalMonotonicity ==
    [][/\ \A in \in IntervalStartInputs :
             (IC_start(in[1], in[2], in[3]) /\ result' = "ok") =>
                 /\ timeFirstClick' = clock + in[1].v
                 /\ in[2] = "spc" => interval' = in[3].v
                 /\ currentSource'.n = 0
                 /\ currentSource'.start = timeFirstClick'
       /\ (IC_frame /\ futureSource' # futureSource) =>
             /\ futureSource'.n = beatCountScheduling'
             /\ futureSource'.n > beatCountScheduling
             /\ futureSource'.start = timeFirstClick + futureSource'.n * interval
             /\ UNCHANGED <<timeFirstClick, interval>>
       /\ (kind = "interval" /\ state' = "active") =>
             \A s \in SlotSources' : s.start = timeFirstClick' + s.n * interval']_vars

\* the third click, scheduled by a tick that came after its time of turn
C3_Witness ==
    /\ kind = "interval" /\ state = "active"
    /\ futureSource.n = 2
    /\ clock > timeFirstClick + interval

\* C4: getCurrentBeat() is a beat of the cycle 1..L
C4_BeatRange == kind = "interval" => getCurrentBeat \in 1..MaxBeat(options)

\* C5: for strictly increasing clicks with a click at or after resumeAfter,
\* start schedules one node for each index from the first such index c to
\* the last, in order, sets nextClickIndex = c and activates the clicker;
\* [0.5, 1.0, 1.5, 2.0] resumed after 0.9 gives 3 nodes.
C5_ScheduledResume ==
    [][/\ (/\ SC_startArgs
           /\ state # "closed" /\ WellFormed(args)
           /\ StrictlyIncreasing(args[2]) /\ HasResume(args[2], args[1].v)) =>
              LET n == Len(args[2])
                  c == ResumeIndex(args[2], args[1].v)
              IN  /\ result' = "ok"
                  /\ state' = "active"
                  /\ nextClickIndex' = c
                  /\ Len(sources') = n - c
                  /\ \A i \in 1..(n - c) : sources'[i].n = c + i - 1 /\ ~sources'[i].ended
       /\ LET example == <<100, 200, 300, 400>>
              p == PrefixScan(example, 180, 0)
          IN  /\ ~p.thrown /\ p.c = 1
              /\ Len(SuffixScan(example, 180, 0, p.c, <<>>, <<>>).srcs) = 3]_vars

\* C6: when every click is before resumeAfter, start ends without an error,
\* with no node in the queue and the clicker ready.
C6_ExhaustedTimeline ==
    [][(/\ SC_startArgs
        /\ state # "closed" /\ WellFormed(args)
        /\ StrictlyIncreasing(args[2]) /\ ~HasResume(args[2], args[1].v)) =>
           /\ result' = "ok"
           /\ sources' = <<>>
           /\ state' = "ready"]_vars

\* a clicker that had run, after start past its last click
C6_Witness ==
    /\ args = <<Num(3), <<0, 1, 2>>, Num(0)>>
    /\ state = "ready" /\ result = "ok" /\ sources = <<>> /\ timeAtStart # Null

\* C7: with a finite resumeAfter >= 0, a non-empty clicks and a finite offset,
\* start ends with an error exactly when clicks is not strictly increasing.
C7_NonMonotonicRejection ==
    [][(SC_startArgs /\ state # "closed" /\ WellFormed(args)) =>
           (result' # "ok" <=> ~StrictlyIncreasing(args[2]))]_vars

\* C8: an IntervalClicker never has more than two nodes that are neither
\* stopped nor past their stop time; a ScheduledClicker that start has
\* activated holds one node for each click from the resume index on; and
\* start ends with an error only for a closed clicker or for arguments it
\* rejects, whatever an earlier run has left.
C8_PauseResumeSafety ==
    [][/\ kind = "interval" => Cardinality(LiveInterval') <= 2
       /\ \A in \in IntervalStartInputs :
             IC_start(in[1], in[2], in[3]) =>
                 (result' = "error" <=>
                     \/ state = "closed"
                     \/ WhenInvalid(in[1]) \/ ~IntervalKnown(in[2])
                     \/ IntervalInvalid(IntervalTime(in[2], in[3])))
       /\ \A in \in ScheduledStartInputs :
             SC_start(in[1], in[2], in[3]) =>
                 /\ result' # "ok" <=>
                       \/ state = "closed" \/ ~WellFormed(in) \/ ~StrictlyIncreasing(in[2])
                       \/ /\ HasResume(in[2], in[1].v)
                          /\ ScheduleThrows(in[2], in[1].v, in[3].v,
                                            ResumeIndex(in[2], in[1].v))
                 /\ (result' = "ok" /\ state' = "active") =>
                       /\ Len(sources') = Len(in[2]) - ResumeIndex(in[2], in[1].v)
                       /\ \A i \in 1..Len(sources') : ~sources'[i].ended]_vars

\* started again while the callback chain of the earlier run was registered
C8_Witness ==
    /\ kind = "interval" /\ state = "active" /\ chains = 2
    /\ Cardinality(LiveInterval) = 2

\* C9: at most two nodes of an IntervalClicker are neither stopped nor past
\* their stop time, and a node that has left the current slot is past it.
C9_TwoSlotBound ==
    kind = "interval" =>
        /\ Cardinality(LiveInterval) <= 2
        /\ \A s \in detached : ~Sounding(s)

\* a node has left the current slot while both slots hold a live node
C9_Witness ==
    /\ kind = "interval"
    /\ detached # {}
    /\ Cardinality(LiveInterval) = 2

\* C10: connect with no destination (null, undefined or an empty list) ends
\* with an error and leaves the destination list as it was.
C10_ConnectNothing ==
    [][\A arg \in {NoDestination, Given(<<>>)} :
          (state # "closed" /\ (IC_connect(arg) \/ SC_connect(arg))) =>
              result' = "error" /\ destinations' = destinations]_vars

\* the nodes the clicker holds whose "ended" event is still to come
LiveNodes == {s \in SlotSources \cup Range(sources) : ~s.ended}

\* C11: every node the clicker holds that has not ended is connected to
\* exactly the destinations of the destination list, after every connect,
\* disconnect and creation of a node.
C11_RoutingConsistency == \A s \in LiveNodes : s.routes = Range(destinations)

\* C12: pause() on a clicker that is not closed ends without an error and
\* leaves the state "ready", no node in a slot or in the queue, no node
\* sounding, the counters reset (IntervalClicker: both beat counts 0, next
\* and interval cleared; ScheduledClicker: nextClickIndex 0, the timeline
\* cleared) and the destination list as it was.
C12_PausePostcondition ==
    [][(state # "closed" /\ (IC_pause \/ SC_pause)) =>
          /\ result' = "ok"
          /\ state' = "ready"
          /\ destinations' = destinations
          /\ LiveNodes' = {}
          /\ kind = "interval" =>
                /\ SlotSources' = {} /\ LiveInterval' = {}
                /\ beatCountScheduling' = 0 /\ beatCountCurrent' = 0
                /\ next' = Null /\ interval' = Null
          /\ kind = "scheduled" =>
                /\ sources' = <<>>
                /\ nextClickIndex' = 0 /\ clickTimes' = <<>>]_vars

\* paused with destinations connected while a node that had left the slots
\* was still to end
C12_Witness ==
    /\ kind = "interval" /\ state = "ready" /\ result = "ok"
    /\ interval = Null /\ destinations # <<>> /\ detached # {}

\* C13: close() on a clicker that is ready or active ends without an error
\* and leaves the destination list empty, no node in a slot or in the queue,
\* no node sounding, the context released and the state "closed".
C13_ClosePostcondition ==
    [][(state # "closed" /\ (IC_close \/ SC_close)) =>
          /\ result' = "ok"
          /\ state' = "closed"
          /\ destinations' = <<>>
          /\ context' = "null"
          /\ LiveNodes' = {}
          /\ SlotSources' = {} /\ sources' = <<>>
          /\ kind = "interval" => LiveInterval' = {}]_vars

\* closed while the frame callback of a run was still registered
C13_Witness ==
    /\ kind = "interval" /\ state = "closed" /\ result = "ok"
    /\ context = "null" /\ chains > 0

\* C14: for strictly increasing beats and a tempo power p >= 1, keeping
\* every 2^p-th entry of the subdivided beats (the rule of tempo power -p)
\* gives back the beats: the same length, the same entries, the same last beat.
C14_TempoRoundTrip ==
    (/\ args[2] # <<>> /\ tempoPower >= 1 /\ StrictlyIncreasing(beats)) =>
        AdjustedBeats(args[2], -tempoPower) = beats

\* three beats subdivided by four and handed to start
C14_Witness ==
    /\ Len(beats) = 3 /\ StrictlyIncreasing(beats) /\ tempoPower = 2
    /\ Len(args[2]) = 9
    /\ AdjustedBeats(args[2], -tempoPower) = beats

\* the lengths and the entries that are copies of beats, for the list a
\* made of the beats b with tempo power p
RuleOfCopies(a, b, p) ==
    LET n == Len(b)
        m == Pow2(IF p >= 0 THEN p ELSE -p)
    IN  /\ p = 0 => a = b
        /\ p > 0 => /\ Len(a) = (n - 1) * m + 1
                    /\ a[Len(a)] = b[n]
        /\ p < 0 => /\ Len(a) * m >= n /\ (Len(a) - 1) * m < n
                    /\ \A i \in 0..(Len(a) - 1) : a[i + 1] = b[i * m + 1]

GapsAtLeast(b, m) == \A i \in 1..(Len(b) - 1) : b[i + 1] - b[i] >= m

ClicksOfIndex(n) ==
    {s \in SlotSources \cup detached :
        s.n = n /\ s.start = timeFirstClick + n * interval}

\* C16: in a run of an IntervalClicker, start creates click 0 and every
\* frame creates the clicks of the indices that follow the last one, one
\* node each and in order, with beatCountScheduling the index of the last
\* click created, however many callbacks the frame runs; the two slots hold
\* neighbouring indices.
C16_ConsecutiveClicks ==
    [][/\ \A in \in IntervalStartInputs :
             (IC_start(in[1], in[2], in[3]) /\ result' = "ok") =>
                 /\ beatCountScheduling' = 0
                 /\ currentSource'.n = 0 /\ futureSource' = NoSource
       /\ (IC_frame /\ state = "active") =>
             /\ beatCountScheduling' >= beatCountScheduling
             /\ \A n \in (beatCountScheduling + 1)..beatCountScheduling' :
                    Cardinality(ClicksOfIndex(n)') = 1
             /\ \A s \in (SlotSources' \cup detached') \ (SlotSources \cup detached) :
                    s.n \in (beatCountScheduling + 1)..beatCountScheduling'
       /\ (kind = "interval" /\ state' = "active") =>
             IF futureSource' = NoSource
             THEN currentSource'.n = 0 /\ beatCountScheduling' = 0
             ELSE /\ futureSource'.n = beatCountScheduling'
                  /\ currentSource'.n = beatCountScheduling' - 1]_vars

\* two callback chains registered, and the clicks up to index 2 created
C16_Witness ==
    /\ kind = "interval" /\ state = "active" /\ chains = 2
    /\ beatCountScheduling = 2 /\ futureSource.n = 2 /\ currentSource.n = 1


\* the start times of a successful start: event i of the timeline starts at
\* timeOrigin + (clicks[i] - resumeAfter) + offset, one event for each index
\* from the resume index on, so the start times increase strictly
ScheduledAtFormula(in) ==
    LET c == ResumeIndex(in[2], in[1].v)
    IN  /\ timeAtStart' = clock
        /\ Len(sources') = Len(in[2]) - c
        /\ \A i \in 1..Len(sources') :
              /\ sources'[i].n = c + i - 1
              /\ sources'[i].start = timeAtStart' + (in[2][c + i] - in[1].v) + in[3].v
        /\ \A i \in 1..(Len(sources') - 1) : sources'[i].start < sources'[i + 1].start

\* C17: within one timeline event i starts at
\* timeOrigin + (clicks[i] - resumeAfter) + offset, the start times increase
\* strictly with i, and the events end in index order: an event of the queue
\* ends only when every event before it in the queue has ended.
C17_ScheduledOrder ==
    [][/\ \A in \in OrderInputs :
             (SC_start(in[1], in[2], in[3]) /\ result' = "ok" /\ state' = "active")
                 => ScheduledAtFormula(in)
       /\ \A i \in 1..Len(sources) :
             SC_ended(i) => \A j \in 1..(i - 1) : sources[j].ended]_vars

\* C18: in both mode controllers, whatever operations have run, every clicker
\* that is not closed is the one the controller refers to; so at most one
\* clicker is not closed, and none is dropped or replaced without being
\* closed, also when the start of the replacement throws.
C18_ExclusiveOwnership ==
    \A i \in 1..Len(clickers) : clickers[i] # "closed" => i = clicker

\* C19: while an IntervalClicker stays active, every change of the value of
\* getCurrentBeat() advances the position by exactly one in the cycle
\* 1, 2, ..., L, 1, ..., whatever the order of frames and ended events.
C19_BeatPeriodicity ==
    [][\A s \in IntervalPending :
          (IC_ended(s) /\ state = "active" /\ getCurrentBeat' # getCurrentBeat)
              => getCurrentBeat' = (getCurrentBeat % MaxBeat(options)) + 1]_vars

\* the lag of the counter of sounded clicks behind the counter of scheduled ones
CounterLag == beatCountScheduling - beatCountCurrent

\* C20 (as stated): in every reachable state of an IntervalClicker
\* 0 <= beatCountScheduling - beatCountCurrent <= 1.
C20_CounterLag == kind = "interval" => CounterLag \in 0..1

\* C20 (amended): beatCountCurrent never exceeds beatCountScheduling; the lag
\* is 1 after the ended event of every click the periodic callback scheduled,
\* and it grows past 1 only in a frame, which schedules the next click while
\* the one before it has not ended.
C20_CounterLagBetweenEnds ==
    /\ [](kind = "interval" => CounterLag >= 0)
    /\ [][/\ \A s \in IntervalPending :
                (IC_ended(s) /\ s.onended = "counter" /\ context # "null")
                    => CounterLag' = 1
          /\ (kind = "interval" /\ CounterLag' > 1 /\ CounterLag' # CounterLag)
                => (IC_frame /\ CounterLag' <= CounterLag + chains)]_vars

\* click 1 has ended after click 2 was scheduled: the lag is back to 1
C20_Witness ==
    /\ kind = "interval" /\ state = "active" /\ chains = 1
    /\ beatCountScheduling = 2 /\ beatCountCurrent = 1
    /\ futureSource.n = 2 /\ currentSource.n = 1 /\ currentSource.ended

\* the first adjacent pair of the list that is not strictly increasing, as
\* the error is to name it: both values and both (0-based) indices
FirstViolation(clicks) ==
    LET k == CHOOSE j \in 1..(Len(clicks) - 1) :
                 /\ clicks[j] >= clicks[j + 1]
                 /\ \A h \in 1..(j - 1) : clicks[h] < clicks[h + 1]
    IN  <<clicks[k], clicks[k + 1], k - 1, k>>

\* C21: when ScheduledClicker.start rejects a list that is not strictly
\* increasing, its error names the first violating adjacent pair, with the
\* values and the indices of that pair, wherever in the list the pair is.
C21_OffendingPair ==
    [][(/\ SC_startArgs /\ result' = "error"
        /\ state # "closed" /\ WellFormed(args))
           => message' = FirstViolation(args[2])]_vars

\* C22: once an IntervalClicker has been paused or closed and is not started
\* again, no node is created, neither beat counter changes any more, and a
\* frame leaves no callback registered.
C22_TickChainHalts ==
    [][(kind = "interval" /\ state # "active" /\ state' # "active") =>
          /\ beatCountScheduling' = beatCountScheduling
          /\ beatCountCurrent' = beatCountCurrent
          /\ LiveInterval' \subseteq LiveInterval
          /\ IC_frame => chains' = 0]_vars

\* the frequency the pattern gives a beat number: that of the first entry
\* listing it, of the first entry when none lists it
PatternFrequency(beatNumber) ==
    LET listing == {i \in 1..Len(options) : beatNumber \in Range(options[i].beats)}
    IN  IF listing = {} THEN options[1].frequency
        ELSE options[CHOOSE i \in listing : \A j \in listing : i <= j].frequency

\* C23: the node of click n of an IntervalClicker has beat number
\* (n mod L) + 1, L the largest beat listed in the pattern, and the timbre of
\* the first pattern entry listing that beat, or of the first entry when no
\* entry lists it.
C23_TimbrePerBeat ==
    kind = "interval" =>
        \A s \in SlotSources \cup detached :
            /\ s.beat = (s.n % MaxBeat(options)) + 1
            /\ s.frequency = PatternFrequency(s.beat)

\* cycle length 3 with beat 2 listed nowhere: click 1 has the timbre of the
\* first entry, click 2 that of the entry listing beat 3
C23_Witness ==
    /\ kind = "interval" /\ options = PatternGap /\ state = "active"
    /\ currentSource.n = 1 /\ currentSource.beat = 2 /\ currentSource.frequency = 880
    /\ futureSource.n = 2 /\ futureSource.beat = 3 /\ futureSource.frequency = 660

\* C24: a valid start of an IntervalClicker that is active discards the nodes
\* of the schedule before it, sets both beat counters to 0, the time of the
\* first click to now + when and `next` to it, and leaves one live node,
\* click 0 with beat 1 in the current slot, the future slot empty and the
\* state "active".
C24_RestartFromActive ==
    [][\A in \in IntervalStartInputs :
          (IC_start(in[1], in[2], in[3]) /\ state = "active" /\ result' = "ok") =>
              /\ state' = "active"
              /\ beatCountScheduling' = 0 /\ beatCountCurrent' = 0
              /\ timeFirstClick' = clock + in[1].v
              /\ next' = timeFirstClick'
              /\ interval' = IntervalTime(in[2], in[3]).v
              /\ futureSource' = NoSource
              /\ currentSource'.n = 0 /\ currentSource'.beat = 1
              /\ currentSource'.start = timeFirstClick' /\ ~currentSource'.ended
              /\ LiveInterval' = {currentSource'}]_vars

\* started again at clock 5, while clicks of the run started at 0 were in
\* both slots
C24_Witness ==
    /\ kind = "interval" /\ state = "active" /\ result = "ok" /\ chains = 2
    /\ clock = 5 /\ timeFirstClick = 5 /\ next = 5
    /\ beatCountScheduling = 0 /\ beatCountCurrent = 0
    /\ currentSource.n = 0 /\ currentSource.start = 5 /\ futureSource = NoSource

\* the events of the queue that have not ended
LiveInQueue == {i \in 1..Len(sources) : ~sources[i].ended}

\* C25: while a ScheduledClicker is active, _nextClickIndex plus the number
\* of live events in the queue is the length of the stored timeline; each
\* ended event adds one to _nextClickIndex and removes that event, which is
\* the head of the queue.
C25_QueueBookkeeping ==
    /\ []((kind = "scheduled" /\ state = "active") =>
              nextClickIndex + Cardinality(LiveInQueue) = Len(clickTimes))
    /\ [][\A i \in 1..Len(sources) :
              (SC_ended(i) /\ state = "active") =>
                  /\ i = 1
                  /\ nextClickIndex' = nextClickIndex + 1
                  /\ sources' = Tail(sources)]_vars

\* C26: IntervalClicker.start throws for a `when` that is not a finite
\* number >= 0, for a type other than "spc" and "bpm", and for seconds per
\* click (time, or 60 / time for "bpm") that are not finite or below
\* MIN_INTERVAL (1/60 s: 60 * t < 200 in units of 5 ms); so the interval of
\* an active IntervalClicker is at least MIN_INTERVAL.
C26_IntervalValidation ==
    /\ []((kind = "interval" /\ state = "active") => 60 * interval >= 200)
    /\ [][\A in \in IntervalStartInputs :
              LET t == IntervalTime(in[2], in[3])
              IN  (/\ IC_start(in[1], in[2], in[3])
                   /\ \/ ~in[1].num \/ in[1].v < 0
                      \/ in[2] \notin {"spc", "bpm"}
                      \/ ~t.num \/ 60 * t.v < 200)
                      => (result' = "error" /\ interval' = interval
                          /\ state' = state)]_vars

\* running at exactly the minimum interval after a start that was rejected
\* while active
C26_Witness ==
    /\ kind = "interval" /\ state = "active" /\ result = "error"
    /\ interval = 4 /\ beatCountScheduling = 1

\* C27: the state is "ready" after construction and changes only in start
\* (to "active", or to "ready" when a ScheduledClicker has no click left),
\* pause (to "ready") and close (to "closed"); frames, ended events, connect
\* and disconnect leave it, so a ScheduledClicker whose last click has ended
\* is still "active".
C27_StateByLifecycleCalls ==
    /\ state = "ready"
    /\ [][/\ state' # state =>
               \/ /\ \/ \E in \in RoutingIntervalInputs : IC_start(in[1], in[2], in[3])
                     \/ \E in \in RoutingScheduledInputs : SC_start(in[1], in[2], in[3])
                  /\ result' = "ok"
                  /\ state' = "active" \/ (kind = "scheduled" /\ state' = "ready")
               \/ (IC_pause \/ SC_pause) /\ state' = "ready"
               \/ (IC_close \/ SC_close) /\ state' = "closed"
          /\ (\/ IC_frame
              \/ \E s \in IntervalPending : IC_ended(s)
              \/ \E i \in 1..Len(sources) : SC_ended(i)
              \/ \E arg \in DestinationArgs :
                    \/ IC_connect(arg) \/ IC_disconnect(arg)
                    \/ SC_connect(arg) \/ SC_disconnect(arg))
                 => state' = state]_vars

\* both clicks of the timeline have ended and the clicker is still active
C27_Witness ==
    /\ kind = "scheduled" /\ state = "active"
    /\ clickTimes = <<0, 2>> /\ nextClickIndex = 2 /\ sources = <<>>

\* the nodes that are scheduled and have neither ended nor been stopped:
\* their stop time is still ahead
LiveEvents ==
    {s \in SlotSources \cup Range(sources) \cup detached :
        ~s.ended /\ clock < s.start + clickDuration}

\* C28: a clicker of either class has live events only while its state is
\* "active"; in state "ready" or "closed" it has none, also after a start
\* that failed.
C28_LiveOnlyWhileActive == state # "active" => LiveEvents = {}

\* C29: a start that throws for one of its arguments (when or
\* firstClickAfter, interval, offset, an empty list or a list that is not
\* strictly increasing) on a clicker that is not closed leaves every field of
\* the clicker as it was: state, nodes, counters, index, timeline and
\* destinations.
C29_FailedStartChangesNothing ==
    [][(/\ state # "closed"
        /\ \/ \E in \in IntervalStartInputs : IC_start(in[1], in[2], in[3])
           \/ \E in \in ScheduledStartInputs : SC_start(in[1], in[2], in[3])
        /\ result' = "error")
           => UNCHANGED clickerVars]_vars

\* C30: an IntervalClicker never has more than one chain of counter
\* callbacks registered with requestAnimationFrame, whatever the order of
\* start, pause and frames.
C30_SingleTickChain == kind = "interval" => chains <= 1

\* the "ended" event of a node that no field refers to any more is
\* dispatched after the run that created it was ended by pause or close
StaleEnded(s) ==
    IF kind = "interval"
    THEN state # "active" /\ IC_ended(s)
    ELSE state = "closed" /\ SC_endedDetached(s)

\* C31: the ended callback of a node created before the latest pause or
\* close changes neither beatCountCurrent nor nextClickIndex nor the queue,
\* and does not run a handler that reads the context once it is released.
C31_NoStaleCallbacks ==
    [][\A s \in detached :
          StaleEnded(s) =>
             /\ UNCHANGED <<beatCountCurrent, nextClickIndex, sources>>
             /\ ~(context = "null" /\ s.onended \in {"counter", "schedule"})]_vars

\* the queue is empty, every node has ended and the index is at the end of
\* the timeline
Drained == sources = <<>> /\ detached = {} /\ nextClickIndex = Len(clickTimes)

\* C32: after a successful start of a ScheduledClicker, with the clock
\* advancing and no further pause, close or start, eventually every
\* scheduled node has ended, the queue is empty and nextClickIndex is the
\* length of the timeline.
C32_ScheduledDrain ==
    (state = "active" /\ result = "ok")
        ~> (Drained \/ state # "active" \/ result # "ok")

\* C33: a start of a ScheduledClicker whose arguments pass the checks never
\* gives a node a start time before the clock time of the call: none starts
\* at once in a burst and none is refused for a negative start time.
C33_NoSchedulingInPast ==
    [][\A in \in OrderInputs :
          (SC_start(in[1], in[2], in[3]) /\ ~SC_startRejects(in[1], in[2], in[3]))
             => /\ result' # "RangeError"
                /\ \A i \in 1..Len(sources') : sources'[i].start >= clock]_vars

\* C34: whenever the file-mode controller constructs and starts a clicker
\* and the song is playing after the call (start, seek, analysis update),
\* the song time given to the clicker is the position played at that moment:
\* context time - contextTimeAtStart + songTimeAtStart.
C34_ClickSongAlignment ==
    [][(/\ kind = "scheduled"
        /\ Len(clickers') > Len(clickers)
        /\ result' = "ok"
        /\ playing')
           => resumeAfter' = clock - NumberOf(contextTimeAtStart')
                                   + NumberOf(songTimeAtStart')]_vars

\* C35: whenever the handler of an analysis update finds the song playing
\* and goes on to start a clicker, playback.context is a context, and the one
\* state.contextTimeAtStart was read from; also while a file is unloaded or
\* another one loaded.
C35_UpdateVersusTeardown ==
    [][(playing /\ \E b \in UpdateBeats : FM_analysisUpdate(b))
          => playbackContext # 0 /\ playbackContext = startedContext]_vars

\* C36: in both modes a "toggle" message that names the state wanted does
\* nothing when state.playing is that state already and leaves state.playing
\* equal to it when the audio call succeeds; a message that names none
\* inverts state.playing.
C36_ToggleIdempotent ==
    [][/\ \A t \in {"true", "false"} :
             (MM_toggle(t) \/ FM_toggle(t)) =>
                /\ playing = (t = "true") => UNCHANGED <<beats, controllerVars>>
                /\ result' = "ok" => playing' = (t = "true")
       /\ ((MM_toggle("undefined") \/ FM_toggle("undefined")) /\ result' = "ok")
             => playing' = ~playing]_vars

\* C37: after every message handled in manual mode, state.playing is true
\* exactly when the controller refers to a clicker that is active; when it is
\* false the controller refers to no clicker and every clicker constructed
\* is closed.
C37_PlayingMatchesClicker ==
    kind = "interval" =>
       /\ playing <=> (clicker # 0 /\ clickers[clicker] = "active")
       /\ ~playing => (clicker = 0 /\ \A i \in 1..Len(clickers) : clickers[i] = "closed")

\* a request that is not a number in [15, 500]
BadBpm(r) == r.kind # "number" \/ r.v < 15 \/ r.v > 500

\* C38: in manual mode state.bpm is always a number in [15, 500]; a
\* change-bpm request that is not such a number is answered with a failure
\* and leaves state.bpm and the clickers as they were; and no handler ends in
\* an exception of IntervalClicker.start.
C38_BpmBound ==
    /\ [](kind = "interval" => (IsFinite(bpm) /\ bpm.v >= 15 /\ bpm.v <= 500))
    /\ [][/\ \A r \in BpmRequests :
                (MM_changeBpm(r) /\ BadBpm(r)) =>
                    (result' = "failure" /\ UNCHANGED <<bpm, clickers, clicker>>)
          /\ kind = "interval" => result' # "error"]_vars

====
